---- MODULE Spec2Model ----
(***************************************************************************)
(* A model of pyme's PymeImage (src/pyme/PymeImage.py): a wrapper around   *)
(* a Pillow image with add_padding, draw_image, draw_text, resize and      *)
(* _center_image.  Pixel values are abstracted away; the model keeps the   *)
(* geometry (canvas size, whether the buffer was replaced, where content   *)
(* is placed) and the exceptions raised.  Python's float arithmetic        *)
(* (IEEE-754 binary64, round to nearest even) is modelled exactly, because *)
(* resize computes its result with `/`, `*` and int() on floats.           *)
(* The canvas is taken to be an RGBA image, as Pillow requires of the mask *)
(* add_padding pastes with.                                                *)
(***************************************************************************)
EXTENDS Integers, Sequences, FiniteSets

\* ------------------------------------------------------------------------
\* Bounds of the model
\* ------------------------------------------------------------------------
MaxInit == 3        \* initial canvas sides are (MaxInit - 1)..MaxInit
MaxGrow == 1        \* a call that would grow a side beyond MaxInit + MaxGrow is not taken
MaxOut == 1         \* pixel bbox left/top are drawn from -MaxOut..1
MaxSpan == 3        \* pixel bbox spans (right-left, bottom-top) are drawn from -1..MaxSpan
MaxContent == 3     \* sides of the image to draw are 1..MaxContent
MaxSrc == 11        \* SpecResize: initial sides of the image to resize are 1..MaxSrc
MaxTarget == 15     \* SpecResize: target sides are 0..MaxTarget

\* ------------------------------------------------------------------------
\* IEEE-754 binary64 arithmetic (Python's float), round to nearest even,
\* on the operands the program has: integers of magnitude below 2^10.
\* A float is [s, m, e]: sign s (1 or -1), m = <<q0, d1, d2, d3>> the 53-bit
\* significand M = q0*Limb^3 + d1*Limb^2 + d2*Limb + d3 in limbs of LimbBits
\* bits (2^13 <= q0 < 2^14, so 2^52 <= M < 2^53), and e the exponent of the
\* last bit: the value is s * M * 2^e.  Zero has m = <<>>.
\* ------------------------------------------------------------------------
LimbBits == 13

Limb == 2 ^ LimbBits

FZero == [s |-> 1, m |-> <<>>, e |-> 0]

Abs(x) == IF x < 0 THEN -x ELSE x

\* ceil(x / d) for x >= 0, d > 0.
CeilDiv(x, d) == (x + d - 1) \div d

\* Throughout, { F(x) : x \in {e} } binds x to the value of e, and
\* CHOOSE r \in {v} : TRUE is v: together they are a let that computes e once.

\* M + 1 on the limbs (the carry may leave q0 = 2 * Limb).
IncLimbs(m) ==
    IF m[4] + 1 < Limb THEN << m[1], m[2], m[3], m[4] + 1 >>
    ELSE IF m[3] + 1 < Limb THEN << m[1], m[2], m[3] + 1, 0 >>
    ELSE IF m[2] + 1 < Limb THEN << m[1], m[2] + 1, 0, 0 >>
    ELSE << m[1] + 1, 0, 0, 0 >>

\* The float s * M * 2^e after the rounding decision up (add one unit in
\* the last place), renormalised when the significand reaches 2^53.
FRound(s, m, e, up) ==
    IF ~up THEN [s |-> s, m |-> m, e |-> e]
    ELSE IF m = << 2 * Limb - 1, Limb - 1, Limb - 1, Limb - 1 >>
         THEN [s |-> s, m |-> << Limb, 0, 0, 0 >>, e |-> e + 1]
         ELSE [s |-> s, m |-> IncLimbs(m), e |-> e]

\* The scaling of |a| / b: the k for which floor(|a| * 2^k / b) has
\* LimbBits + 1 bits.
DivScales(a, b) ==
    { j \in 0..24 : /\ Abs(a) >= CeilDiv(b * Limb, 2 ^ j)
                    /\ Abs(a) < CeilDiv(b * 2 * Limb, 2 ^ j) }

\* Long division of n0 by b in base Limb: four limbs of quotient, rounded
\* to nearest even on the remainder.
Quotient(s, n0, b, e) ==
    LET r0 == n0 % b
        r1 == (r0 * Limb) % b
        r2 == (r1 * Limb) % b
        r3 == (r2 * Limb) % b
        d3 == (r2 * Limb) \div b
    IN FRound(s, << n0 \div b, (r0 * Limb) \div b, (r1 * Limb) \div b, d3 >>, e,
              2 * r3 > b \/ (2 * r3 = b /\ d3 % 2 = 1))

\* a / b for integers a and b > 0, correctly rounded (Python's int / int).
FDiv(a, b) ==
    IF a = 0 THEN FZero
    ELSE CHOOSE f \in { Quotient(IF a < 0 THEN -1 ELSE 1, Abs(a) * 2 ^ k, b,
                                 -(k + 3 * LimbBits)) : k \in DivScales(a, b) } : TRUE

\* n * M on the limbs: << t, p1, p2, p3 >>, the product being
\* t*Limb^3 + p1*Limb^2 + p2*Limb + p3 with p1, p2, p3 < Limb.
MulLimbs(n, m) ==
    LET x3 == n * m[4]
        x2 == n * m[3] + x3 \div Limb
        x1 == n * m[2] + x2 \div Limb
    IN << n * m[1] + x1 \div Limb, x1 % Limb, x2 % Limb, x3 % Limb >>

\* The product p shifted right by j bits to a 53-bit significand, rounded
\* to nearest even on the bits shifted out.
ShiftRound(s, p, e, j) ==
    LET J == 2 ^ j
        S == Limb \div J
        d3 == (p[3] % J) * S + p[4] \div J
        tail == p[4] % J
    IN FRound(s, << p[1] \div J, (p[1] % J) * S + p[2] \div J,
                    (p[2] % J) * S + p[3] \div J, d3 >>, e + j,
              2 * tail > J \/ (2 * tail = J /\ d3 % 2 = 1))

\* The product s * p * 2^e as a float.
Product(s, p, e) ==
    CHOOSE f \in { ShiftRound(s, p, e, j) :
                     j \in { i \in 0..10 : /\ Limb <= p[1] \div 2 ^ i
                                           /\ p[1] \div 2 ^ i < 2 * Limb } } : TRUE

\* n * f for an integer 0 < n < 2^10 and a float f, correctly rounded
\* (Python's int * float: n converts exactly, the product is rounded once).
FMulInt(n, f) ==
    IF f.m = <<>> THEN FZero
    ELSE CHOOSE g \in { Product(f.s, p, f.e) : p \in {MulLimbs(n, f.m)} } : TRUE

\* int(f): truncation toward zero, for |f| < 2^24.
FTrunc(f) ==
    IF f.m = <<>> \/ -f.e >= 4 * LimbBits + 1 THEN 0
    ELSE IF -f.e >= 3 * LimbBits
         THEN f.s * (f.m[1] \div 2 ^ (-f.e - 3 * LimbBits))
         ELSE f.s * (f.m[1] * 2 ^ (3 * LimbBits + f.e)
                     + f.m[2] \div 2 ^ (-f.e - 2 * LimbBits))

\* Order on the magnitudes of non-zero floats.
MagLess(f, g) ==
    \/ f.e < g.e
    \/ /\ f.e = g.e
       /\ \E i \in 1..4 : /\ f.m[i] < g.m[i]
                          /\ \A h \in 1..(i - 1) : f.m[h] = g.m[h]

\* f < g on floats.
FLess(f, g) ==
    IF f.m = <<>> THEN g.m # <<>> /\ g.s = 1
    ELSE IF g.m = <<>> THEN f.s = -1
    ELSE IF f.s # g.s THEN f.s < g.s
    ELSE IF f.s = 1 THEN MagLess(f, g)
    ELSE MagLess(g, f)

\* ------------------------------------------------------------------------
\* resize (lines 165-204)
\* ------------------------------------------------------------------------

\* int(n * q) for a side n and a quotient q.
Scaled(n, q) == CHOOSE v \in { FTrunc(p) : p \in {FMulInt(n, q)} } : TRUE

\* (new_width, new_height) from the two quotients: both sides are scaled
\* by width_quotient when it is the smaller, by height_quotient otherwise.
NewSize(w, h, width_quotient, height_quotient) ==
    IF FLess(width_quotient, height_quotient)
    THEN << Scaled(w, width_quotient), Scaled(h, width_quotient) >>
    ELSE << Scaled(w, height_quotient), Scaled(h, height_quotient) >>

\* The size resize(size, keep_ratio=True) asks Pillow for, on a w x h image.
KeepRatioSize(w, h, size) ==
    CHOOSE r \in { NewSize(w, h, width_quotient, height_quotient) :
                     width_quotient \in {FDiv(size[1], w)},
                     height_quotient \in {FDiv(size[2], h)} } : TRUE

\* The size resize passes to Pillow's Image.resize.
ResizeRequest(w, h, size, keep_ratio) ==
    IF keep_ratio THEN KeepRatioSize(w, h, size) ELSE size

\* Pillow's Image.resize raises ValueError("height and width must be > 0")
\* for a requested size with a side below 1.
ResizeRaises(size) == size[1] < 1 \/ size[2] < 1

\* ------------------------------------------------------------------------
\* _center_image (lines 33-50)
\* ------------------------------------------------------------------------

\* CenterBox with the right and bottom edges taken as far from the outer
\* box's far edges as the left and top edges are from its near edges.
CenterBoxMirrored(bbox, width_img, height_img) ==
    << bbox[1] + ((bbox[3] - bbox[1]) - width_img) \div 2,
       bbox[2] + ((bbox[4] - bbox[2]) - height_img) \div 2,
       bbox[3] - ((bbox[3] - bbox[1]) - width_img) \div 2,
       bbox[4] - ((bbox[4] - bbox[2]) - height_img) \div 2 >>

\* The box _center_image returns for the outer box bbox, on the wrapper of
\* a width_img x height_img image.  Python's // is floor division, as \div.
CenterBox(bbox, width_img, height_img) ==
    LET width_bbox == bbox[3] - bbox[1]
        height_bbox == bbox[4] - bbox[2]
    IN << bbox[1] + (width_bbox - width_img) \div 2,
          bbox[2] + (height_bbox - height_img) \div 2,
          bbox[1] + (width_bbox + width_img) \div 2,
          bbox[2] + (height_bbox + height_img) \div 2 >>

\* ------------------------------------------------------------------------
\* add_padding (lines 52-82)
\* ------------------------------------------------------------------------

\* add_padding without its early return.
PaddingNeverSkipped(left, top, right, bottom) == FALSE

\* `not any([left, top, right, bottom])`: every argument is falsy, i.e. 0.
PaddingSkipped(left, top, right, bottom) ==
    ~(left # 0 \/ top # 0 \/ right # 0 \/ bottom # 0)

\* PaddedSize without the growth by left and top (the content is offset but
\* the buffer is not enlarged for it).
PaddedSizeFarSidesOnly(W, H, left, top, right, bottom) ==
    << W + (IF right > W THEN right - W ELSE 0),
       H + (IF bottom > H THEN bottom - H ELSE 0) >>

\* new_size after the four growth tests, on a W x H image.
PaddedSize(W, H, left, top, right, bottom) ==
    << W + (IF left > 0 THEN left ELSE 0) + (IF right > W THEN right - W ELSE 0),
       H + (IF top > 0 THEN top ELSE 0) + (IF bottom > H THEN bottom - H ELSE 0) >>

\* paste_coords: where the old content is pasted into the new buffer.
PaddingOffset(left, top) ==
    << IF left > 0 THEN left ELSE 0, IF top > 0 THEN top ELSE 0 >>

\* The canvas after add_padding(left, top, right, bottom) on a W x H canvas:
\* its size, whether self._image was replaced by a new buffer, and the
\* offset of the old content in it.
AddPadding(W, H, left, top, right, bottom) ==
    IF PaddingSkipped(left, top, right, bottom)
    THEN [size |-> << W, H >>, alloc |-> FALSE, shift |-> << 0, 0 >>]
    ELSE [size |-> PaddedSize(W, H, left, top, right, bottom),
          alloc |-> TRUE,
          shift |-> PaddingOffset(left, top)]

\* ------------------------------------------------------------------------
\* draw_image (lines 84-133) and draw_text (lines 135-163)
\* ------------------------------------------------------------------------

\* A bbox argument is [float, v]: v the sequence of its components, float
\* whether they are floats; a float component is v[i] / FracDen (a dyadic
\* fraction, so that its product with a side is exact in binary64).
FracDen == 2

\* int(x / d): truncation toward zero.
TruncDiv(x, d) == IF x >= 0 THEN x \div d ELSE -((-x) \div d)

\* The length test rejecting only the boxes that are too short.
TooShort(bbox) == Len(bbox.v) < 4

\* `len(bbox) != 4`
BadLength(bbox) == Len(bbox.v) # 4

\* The pixel bbox: percentages (isinstance(bbox[0], float)) are multiplied
\* by the canvas sides and truncated by int().
AbsoluteBBox(bbox, W, H) ==
    IF bbox.float
    THEN << TruncDiv(bbox.v[1] * W, FracDen), TruncDiv(bbox.v[2] * H, FracDen),
            TruncDiv(bbox.v[3] * W, FracDen), TruncDiv(bbox.v[4] * H, FracDen) >>
    ELSE bbox.v

\* `bbox[0] < 0 or bbox[1] < 0 or bbox[2] > width or bbox[3] > height`
NeedsPadding(px, W, H) == px[1] < 0 \/ px[2] < 0 \/ px[3] > W \/ px[4] > H

\* PaddingArgs without abs().
PaddingArgsSigned(px) == << px[1], px[2], px[3], px[4] >>

\* The arguments draw_image passes to add_padding.
PaddingArgs(px) == << Abs(px[1]), Abs(px[2]), px[3], px[4] >>

\* new_size: the size the image to draw is resized to fit.
TargetSize(px) == << px[3] - px[1], px[4] - px[2] >>

\* paste_coords before centering: negative left/top clamped to 0.
ClampedBox(px) ==
    << IF px[1] > 0 THEN px[1] ELSE 0, IF px[2] > 0 THEN px[2] ELSE 0, px[3], px[4] >>

\* raise ValueError("Bounding box requires 4 arguments"): nothing was done.
Raised(W, H) ==
    [size |-> << W, H >>, alloc |-> FALSE, shift |-> << 0, 0 >>, px |-> <<>>,
     resized |-> <<>>, paste |-> <<>>, err |-> "ValueError"]

\* The padding step of draw_image on a W x H canvas.
PadIfNeeded(W, H, px, a) ==
    IF NeedsPadding(px, W, H)
    THEN AddPadding(W, H, a[1], a[2], a[3], a[4])
    ELSE [size |-> << W, H >>, alloc |-> FALSE, shift |-> << 0, 0 >>]

\* The resize and paste steps, after the padding step left pad: Pillow's
\* ValueError on an empty size leaves draw_image before anything is pasted.
ResizeAndPaste(pad, px, req) ==
    [size |-> pad.size, alloc |-> pad.alloc, shift |-> pad.shift,
     px |-> px, resized |-> req,
     paste |-> IF ResizeRaises(req) THEN <<>>
               ELSE CenterBox(ClampedBox(px), req[1], req[2]),
     err |-> IF ResizeRaises(req) THEN "ValueError" ELSE "none"]

\* draw_image from the pixel bbox on.
DrawAt(W, H, image, px) ==
    CHOOSE r \in { ResizeAndPaste(pad, px, req) :
                     pad \in {PadIfNeeded(W, H, px, PaddingArgs(px))},
                     req \in {ResizeRequest(image[1], image[2], TargetSize(px), TRUE)} } :
        TRUE

\* What draw_image(image, bbox) does to a W x H canvas, image being
\* image[1] x image[2]: the canvas size afterwards, whether the buffer was
\* replaced, the offset of the old content, the pixel bbox, the size asked
\* of resize, the box the image was pasted in (<<>> when nothing was
\* pasted) and the exception raised.
DrawImage(W, H, image, bbox) ==
    IF BadLength(bbox) THEN Raised(W, H)
    ELSE CHOOSE r \in { DrawAt(W, H, image, px) : px \in {AbsoluteBBox(bbox, W, H)} } :
             TRUE

\* What draw_text(text, bbox) does to a W x H canvas, size being what
\* multiline_textbbox measures for text with the Impact font: it raises on
\* a bbox of the wrong length before it measures anything; otherwise it
\* renders the text on a transparent surface of that size and hands the
\* surface to draw_image.  (The font is taken to be installed and the text
\* not to be empty.)
DrawText(W, H, size, bbox) ==
    IF BadLength(bbox) THEN Raised(W, H)
    ELSE DrawImage(W, H, size, bbox)

\* ------------------------------------------------------------------------
\* Inputs
\* ------------------------------------------------------------------------
MaxCanvas == MaxInit + MaxGrow

InitSides == (MaxInit - 1)..MaxInit

\* Pixel boxes (left, top, right, bottom); spans may be empty or inverted.
PixelBoxes ==
    { << l, t, l + sx, t + sy >> :
        l \in -MaxOut..1, t \in -MaxOut..1, sx \in -1..MaxSpan, sy \in -1..MaxSpan }

\* Percentage boxes, in units of 1 / FracDen: -0.5, 0.0, 0.5 for left/top
\* and 0.5, 1.0, 1.5 for right/bottom.
FracBoxes ==
    { << l, t, r, b >> : l \in -1..1, t \in -1..1, r \in 1..3, b \in 1..3 }

\* Sequences of the wrong length (3 and 5): a box cut short or with a
\* component too many.
BadBoxes == { SubSeq(<< 0, 0, c, c, c >>, 1, n) : n \in {3, 5}, c \in {1, 2} }

BBoxes ==
    { [float |-> FALSE, v |-> v] : v \in PixelBoxes \cup BadBoxes }
    \cup { [float |-> TRUE, v |-> v] : v \in FracBoxes \cup BadBoxes }

\* Sizes of the images to draw.
Images == (1..MaxContent) \X (1..MaxContent)

\* Sizes multiline_textbbox measures for the texts drawn (non-empty text).
TextSizes == { << MaxContent, 1 >>, << MaxContent, 2 >>, << 2, 1 >> }

PaddingArguments ==
    (-1..MaxOut) \X (-1..MaxOut) \X (-1..MaxCanvas) \X (-1..MaxCanvas)

\* ------------------------------------------------------------------------
\* State: the canvas (self._image) and a record of the last call
\* ------------------------------------------------------------------------
VARIABLES
    width,      \* self._image.width
    height,     \* self._image.height
    last        \* the last call: its arguments, the canvas before it, its outcome

vars == << width, height, last >>

NoCall ==
    [op |-> "init", arg |-> <<>>, image |-> <<>>, pre |-> <<>>, alloc |-> FALSE,
     shift |-> << 0, 0 >>, px |-> <<>>, resized |-> <<>>, paste |-> <<>>,
     err |-> "none"]

Init ==
    /\ width \in InitSides
    /\ height \in InitSides
    /\ last = NoCall

\* A call is made when the previous one has returned.
Idle == last.op = "init"

add_padding ==
    /\ Idle
    /\ \E a \in PaddingArguments :
        \E r \in {AddPadding(width, height, a[1], a[2], a[3], a[4])} :
           /\ r.size[1] <= MaxCanvas
           /\ r.size[2] <= MaxCanvas
           /\ width' = r.size[1]
           /\ height' = r.size[2]
           /\ last' = [op |-> "add_padding", arg |-> a, image |-> <<>>,
                       pre |-> << width, height >>, alloc |-> r.alloc,
                       shift |-> r.shift, px |-> <<>>, resized |-> <<>>,
                       paste |-> <<>>, err |-> "none"]

draw_image ==
    /\ Idle
    /\ \E bbox \in BBoxes, image \in Images :
        \E r \in {DrawImage(width, height, image, bbox)} :
           /\ r.size[1] <= MaxCanvas
           /\ r.size[2] <= MaxCanvas
           /\ width' = r.size[1]
           /\ height' = r.size[2]
           /\ last' = [op |-> "draw_image", arg |-> bbox, image |-> image,
                       pre |-> << width, height >>, alloc |-> r.alloc,
                       shift |-> r.shift, px |-> r.px, resized |-> r.resized,
                       paste |-> r.paste, err |-> r.err]

draw_text ==
    /\ Idle
    /\ \E bbox \in BBoxes, size \in TextSizes :
        /\ BadLength(bbox) => size = << 2, 1 >>
        /\ \E r \in {DrawText(width, height, size, bbox)} :
           /\ r.size[1] <= MaxCanvas
           /\ r.size[2] <= MaxCanvas
           /\ width' = r.size[1]
           /\ height' = r.size[2]
           /\ last' = [op |-> "draw_text", arg |-> bbox,
                       image |-> IF BadLength(bbox) THEN <<>> ELSE size,
                       pre |-> << width, height >>, alloc |-> r.alloc,
                       shift |-> r.shift, px |-> r.px, resized |-> r.resized,
                       paste |-> r.paste, err |-> r.err]

\* _center_image called on the canvas's own wrapper: the content is the
\* canvas image itself; nothing changes.
center_image ==
    /\ Idle
    /\ \E bbox \in PixelBoxes :
        /\ UNCHANGED << width, height >>
        /\ last' = [op |-> "center_image", arg |-> bbox, image |-> << width, height >>,
                    pre |-> << width, height >>, alloc |-> FALSE,
                    shift |-> << 0, 0 >>, px |-> <<>>, resized |-> <<>>,
                    paste |-> CenterBox(bbox, width, height), err |-> "none"]

\* The call returns (or its exception is handled) and the caller goes on
\* with the canvas as the call left it.
return ==
    /\ ~Idle
    /\ UNCHANGED << width, height >>
    /\ last' = NoCall

Next == add_padding \/ draw_image \/ draw_text \/ center_image \/ return

Spec == Init /\ [][Next]_vars

\* ------------------------------------------------------------------------
\* SpecResize: resize applied to images of 1..MaxSrc sides
\* ------------------------------------------------------------------------
TargetSizes == (0..MaxTarget) \X (0..MaxTarget)

InitResize ==
    /\ width \in 1..MaxSrc
    /\ height \in 1..MaxSrc
    /\ last = NoCall

\* resize(size, keep_ratio=...): self._image becomes what Pillow's resize
\* returns (a new image), unless Pillow raises.
resize ==
    /\ Idle
    /\ \E size \in TargetSizes, keep_ratio \in BOOLEAN :
        \E req \in {ResizeRequest(width, height, size, keep_ratio)} :
        \E raises \in {ResizeRaises(req)} :
           /\ width' = IF raises THEN width ELSE req[1]
           /\ height' = IF raises THEN height ELSE req[2]
           /\ last' = [op |-> "resize", arg |-> << size, keep_ratio >>, image |-> <<>>,
                       pre |-> << width, height >>, alloc |-> ~raises,
                       shift |-> << 0, 0 >>, px |-> <<>>, resized |-> req,
                       paste |-> <<>>,
                       err |-> IF raises THEN "ValueError" ELSE "none"]

NextResize == resize \/ return

SpecResize == InitResize /\ [][NextResize]_vars

\* ------------------------------------------------------------------------
\* Properties
\* ------------------------------------------------------------------------
Max(a, b) == IF a >= b THEN a ELSE b

\* The last call was draw_image or draw_text.
IsDraw == last.op \in {"draw_image", "draw_text"}

\* The last call was draw_image with a pixel bbox of four components.
PixelDraw == last.op = "draw_image" /\ ~last.arg.float /\ Len(last.arg.v) = 4

\* The last draw pasted its content.
Pasted == IsDraw /\ last.paste # <<>>

\* The last call was add_padding with no positive argument.
NonPositivePadding ==
    last.op = "add_padding" /\ \A i \in 1..4 : last.arg[i] <= 0

\* The last call was resize(size, keep_ratio=True).
KeepRatioCall == last.op = "resize" /\ last.arg[2]

\* C1: draw_image with a pixel bbox whose left and top are negative and
\* whose right and bottom are inside the W x H canvas leaves the canvas at
\* least W + |left| wide and H + |top| high, and the content it pastes is no
\* wider than right - left and no higher than bottom - top.
C1_PaddedAndFitted ==
    ( /\ PixelDraw
      /\ last.arg.v[1] < 0 /\ last.arg.v[2] < 0
      /\ last.arg.v[1] < last.arg.v[3] /\ last.arg.v[3] <= last.pre[1]
      /\ last.arg.v[2] < last.arg.v[4] /\ last.arg.v[4] <= last.pre[2] )
    => /\ width >= last.pre[1] + Abs(last.arg.v[1])
       /\ height >= last.pre[2] + Abs(last.arg.v[2])
       /\ last.paste # <<>> =>
            /\ last.paste[3] - last.paste[1] <= last.arg.v[3] - last.arg.v[1]
            /\ last.paste[4] - last.paste[2] <= last.arg.v[4] - last.arg.v[2]
            /\ last.paste[3] - last.paste[1] = last.resized[1]
            /\ last.paste[4] - last.paste[2] = last.resized[2]

\* C1 witness: such a call on a canvas that was padded and pasted on, with
\* content that had to shrink.
C1_Witness ==
    /\ PixelDraw /\ last.paste # <<>>
    /\ last.arg.v[1] < 0 /\ last.arg.v[2] < 0
    /\ last.arg.v[1] < last.arg.v[3] /\ last.arg.v[3] <= last.pre[1]
    /\ last.arg.v[2] < last.arg.v[4] /\ last.arg.v[4] <= last.pre[2]
    /\ width = last.pre[1] + 1 /\ height = last.pre[2] + 1
    /\ last.resized[1] < last.image[1]

\* C2: resize(size, keep_ratio=True) asks for a size within size on both
\* axes, equal to size on at least one axis (on both when the two ratios are
\* equal), the other axis being the source side scaled by the smaller ratio
\* and truncated.
C2_FitsAndMatches ==
    KeepRatioCall =>
        LET w == last.pre[1]
            h == last.pre[2]
            sw == last.arg[1][1]
            sh == last.arg[1][2]
        IN /\ last.resized[1] <= sw
           /\ last.resized[2] <= sh
           /\ last.resized[1] = sw \/ last.resized[2] = sh
           /\ sw * h = sh * w => last.resized = << sw, sh >>
           /\ sw * h <= sh * w => last.resized = << sw, (h * sw) \div w >>
           /\ sw * h >= sh * w => last.resized = << (w * sh) \div h, sh >>

\* C3: add_padding, when it is not a no-op, makes the canvas
\* W + (left if left > 0) + (right - W if right > W) wide and
\* H + (top if top > 0) + (bottom - H if bottom > H) high, with the old
\* content at (left if left > 0 else 0, top if top > 0 else 0); for positive
\* left and top with right <= W and bottom <= H that is (W + left) x
\* (H + top) with the old content at (left, top).
C3_PaddingGrowth ==
    (last.op = "add_padding" /\ last.alloc) =>
        LET W == last.pre[1]
            H == last.pre[2]
            left == last.arg[1]
            top == last.arg[2]
            right == last.arg[3]
            bottom == last.arg[4]
        IN /\ width = W + Max(left, 0) + Max(right - W, 0)
           /\ height = H + Max(top, 0) + Max(bottom - H, 0)
           /\ last.shift = << Max(left, 0), Max(top, 0) >>
           /\ (left > 0 /\ top > 0 /\ right <= W /\ bottom <= H) =>
                /\ width = W + left /\ height = H + top
                /\ last.shift = << left, top >>

\* C3 witness: padding on the left and top only, and on all four sides.
C3_Witness ==
    /\ last.op = "add_padding" /\ last.alloc
    /\ last.arg[1] > 0 /\ last.arg[2] > 0
    /\ last.arg[3] > last.pre[1] /\ last.arg[4] <= last.pre[2]
    /\ width = last.pre[1] + 2

\* C4 as stated: add_padding is a no-op (same buffer, same size, nothing
\* pasted again) whenever none of its four arguments is positive.
C4_NoOpWhenNonPositive ==
    NonPositivePadding =>
        /\ ~last.alloc
        /\ << width, height >> = last.pre

\* C4 amended: add_padding is a no-op (same buffer, same size, nothing
\* pasted again) whenever its four arguments are all 0; when none is
\* positive but one is negative the canvas keeps its size, with the content
\* pasted at (0, 0) in a new buffer.
C4_NoOpWhenAllZero ==
    NonPositivePadding =>
        /\ << width, height >> = last.pre
        /\ last.shift = << 0, 0 >>
        /\ last.alloc <=> last.arg # << 0, 0, 0, 0 >>

\* C4 witness: add_padding(0, 0, 0, 0) on a canvas an earlier call grew.
C4_Witness ==
    /\ last.op = "add_padding" /\ last.arg = << 0, 0, 0, 0 >>
    /\ ~last.alloc
    /\ width > MaxInit

\* C5: draw_image and draw_text with a bbox whose length is not 4 raise
\* ValueError before any effect: same buffer, same size, nothing pasted.
C5_BadLengthRaises ==
    (IsDraw /\ Len(last.arg.v) # 4) =>
        /\ last.err = "ValueError"
        /\ ~last.alloc
        /\ << width, height >> = last.pre
        /\ last.paste = <<>>

\* C5 witness: draw_text with five components, on a canvas an earlier call
\* grew.
C5_Witness ==
    /\ last.op = "draw_text" /\ Len(last.arg.v) = 5
    /\ last.err = "ValueError"
    /\ height > MaxInit

\* C6: draw_image with the percentage bbox (0.0, 0.0, 1.0, 1.0) on a W x H
\* canvas turns the box into (0, 0, W, H), pads nothing, resizes the content
\* to fit W x H and pastes it centred inside the canvas; the content covers
\* the canvas only if its ratio is W / H, and is smaller on one axis
\* otherwise.
C6_FullCanvasFraction ==
    ( /\ last.op = "draw_image" /\ last.arg.float
      /\ last.arg.v = << 0, 0, FracDen, FracDen >> )
    => LET W == last.pre[1]
           H == last.pre[2]
       IN /\ last.px = << 0, 0, W, H >>
          /\ ~last.alloc /\ << width, height >> = << W, H >>
          /\ last.err = "none" /\ last.paste # <<>>
          /\ last.resized[1] <= W /\ last.resized[2] <= H
          /\ last.paste[1] >= 0 /\ last.paste[2] >= 0
          /\ last.paste[3] <= W /\ last.paste[4] <= H
          /\ last.paste[3] - last.paste[1] = last.resized[1]
          /\ last.paste[4] - last.paste[2] = last.resized[2]
          /\ last.paste[1] - (W - last.paste[3]) \in {-1, 0}
          /\ last.paste[2] - (H - last.paste[4]) \in {-1, 0}
          /\ last.resized = << W, H >> => last.image[1] * H = last.image[2] * W
          /\ last.image[1] * H # last.image[2] * W =>
                last.resized[1] < W \/ last.resized[2] < H

\* C7: draw_image with a pixel bbox pads the W x H canvas by what the box
\* falls outside it and on no other side: the canvas becomes
\* max(W, right) + max(0, -left) wide and max(H, bottom) + max(0, -top)
\* high, and the old content moves by (max(0, -left), max(0, -top)).
\* Stated for the boxes of positive spans.
C7_PadsOnlyOutside ==
    (PixelDraw /\ last.arg.v[1] < last.arg.v[3] /\ last.arg.v[2] < last.arg.v[4]) =>
        /\ width = Max(last.pre[1], last.arg.v[3]) + Max(0, -last.arg.v[1])
        /\ height = Max(last.pre[2], last.arg.v[4]) + Max(0, -last.arg.v[2])
        /\ last.shift = << Max(0, -last.arg.v[1]), Max(0, -last.arg.v[2]) >>

\* C8: in a draw_image call with a pixel bbox of positive spans, the
\* resized content is no larger than the clamped box
\* (max(left, 0), max(top, 0), right, bottom) and is pasted inside it, so
\* the paste origin is not negative and the content lies in the canvas.
C8_PasteInsideClampedBox ==
    ( /\ PixelDraw /\ last.paste # <<>>
      /\ last.arg.v[1] < last.arg.v[3] /\ last.arg.v[2] < last.arg.v[4] )
    => /\ last.resized[1] <= last.arg.v[3] - Max(last.arg.v[1], 0)
       /\ last.resized[2] <= last.arg.v[4] - Max(last.arg.v[2], 0)
       /\ last.paste[1] >= Max(last.arg.v[1], 0)
       /\ last.paste[2] >= Max(last.arg.v[2], 0)
       /\ last.paste[3] <= last.arg.v[3]
       /\ last.paste[4] <= last.arg.v[4]
       /\ last.paste[1] >= 0 /\ last.paste[2] >= 0
       /\ last.paste[3] <= width /\ last.paste[4] <= height

\* C9: _center_image returns, for any outer box and any content size w x h,
\* a box exactly w wide and h high, whose left/top is the outer box's plus
\* floor((outer span - content span) / 2), and whose margins on opposite
\* sides of the outer box differ by at most 1.
C9_CenterBox ==
    (last.op = "center_image" \/ Pasted) =>
        LET outer == IF last.op = "center_image" THEN last.arg ELSE ClampedBox(last.px)
            w == IF last.op = "center_image" THEN last.image[1] ELSE last.resized[1]
            h == IF last.op = "center_image" THEN last.image[2] ELSE last.resized[2]
            dx == last.paste[1] - outer[1]
            dy == last.paste[2] - outer[2]
        IN /\ last.paste[3] - last.paste[1] = w
           /\ last.paste[4] - last.paste[2] = h
           /\ 2 * dx <= (outer[3] - outer[1]) - w
           /\ (outer[3] - outer[1]) - w < 2 * dx + 2
           /\ 2 * dy <= (outer[4] - outer[2]) - h
           /\ (outer[4] - outer[2]) - h < 2 * dy + 2
           /\ (outer[3] - last.paste[3]) - dx \in {0, 1}
           /\ (outer[4] - last.paste[4]) - dy \in {0, 1}

\* C9 witness: content wider than the outer box by an odd amount, and
\* lower than it by an odd amount.
C9_Witness ==
    /\ last.op = "center_image"
    /\ last.image[1] - (last.arg[3] - last.arg[1]) = 3
    /\ (last.arg[4] - last.arg[2]) - last.image[2] = 1
    /\ last.paste[1] < last.arg[1]

\* C10: resize(size, keep_ratio=True) with a size of positive sides, on an
\* image of positive sides, asks Pillow for a size of sides >= 1.
C10_NeverEmpty ==
    (KeepRatioCall /\ last.arg[1][1] >= 1 /\ last.arg[1][2] >= 1) =>
        /\ last.resized[1] >= 1
        /\ last.resized[2] >= 1
        /\ last.err = "none"

====
